---- MODULE Spec2Model ----
(***************************************************************************)
(* syswatch: the sampling cycle of App (src/src/app.rs).                   *)
(*                                                                         *)
(* State is the fields of App; the operations are App::tick (the cycle),   *)
(* App::select_process (navigation) and handle_key (src/src/main.rs).      *)
(*                                                                         *)
(* Encodings                                                               *)
(*   Option<T>   None is <<>>, Some(x) is <<x>>.                           *)
(*   f64 percent an exact rational <<p, q>> in lowest terms, q > 0, whose  *)
(*               value is p/q; 0.0 is <<0, 1>>.  Rounding of the f64       *)
(*               division is not modelled.                                 *)
(*   f32 usage   NaN is <<>>, a number v is <<v>>.                         *)
(*   indexes     table_state holds the 0-based row index of the code;      *)
(*               row i is processes[i + 1].                                *)
(*   ProcessInfo [pid, cpu_usage]; name and memory are carried through     *)
(*               unread by every operation and are left out.               *)
(***************************************************************************)
EXTENDS Integers, Sequences, FiniteSets, TLC

VARIABLES
    prev_ticks,      \* app.rs:158  Option<[u64; 4]>: [user, system, idle, nice]
    tick_count,      \* app.rs:159  u64 cycle counter
    system_pct,      \* app.rs:162  f64
    user_pct,        \* app.rs:164  f64
    idle_pct,        \* app.rs:166  f64
    system_history,  \* app.rs:169  VecDeque<(f64, f64)>: <<tick, system_pct>>
    user_history,    \* app.rs:171  VecDeque<(f64, f64)>: <<tick, user_pct>>
    thread_count,    \* app.rs:174  usize
    total_memory,    \* app.rs:176  u64
    used_memory,     \* app.rs:178  u64
    processes,       \* app.rs:181  Vec<ProcessInfo>
    table_state,     \* app.rs:183  TableState.selected: Option<usize>
    selected_pid,    \* app.rs:184  Option<Pid>
    running,         \* app.rs:186  bool
    now,             \* app.rs:248  the snapshot get_cpu_ticks() returned last
    procs,           \* app.rs:301  the raw inventory of the last cycle, unsorted
    system_log,      \* history variable: every point pushed to system_history
    user_log,        \* history variable: every point pushed to user_history
    call             \* history variable: the operation that ran last, its
                     \* offset, and what it started from: the table
                     \* selection, the stored snapshot, whether the selected
                     \* pid was missing from the list and whether the read
                     \* before it had failed

vars == <<prev_ticks, tick_count, system_pct, user_pct, idle_pct,
          system_history, user_history, thread_count, total_memory,
          used_memory, processes, table_state, selected_pid, running,
          now, procs, system_log, user_log, call>>

----------------------------------------------------------------------------
(* Program constants and bounds *)

HISTORY_LEN == 180
WINDOW == 180

MaxPid == 3
MaxTicks == 3
MaxCpuCycles == 2
MaxSamples == 183
MaxOffset == 2

----------------------------------------------------------------------------
(* Option and numeric helpers *)

None == <<>>
Some(x) == <<x>>

NaN == <<>>
Num(v) == <<v>>

Max(a, b) == IF a >= b THEN a ELSE b
Min(a, b) == IF a <= b THEN a ELSE b

RECURSIVE Gcd(_, _)
Gcd(a, b) == IF b = 0 THEN a ELSE Gcd(b, a % b)

\* The f64 value n / d (d > 0, n >= 0) as an exact rational in lowest terms.
Ratio(n, d) == LET g == Gcd(n, d) IN <<n \div g, d \div g>>

ZeroPct == <<0, 1>>

\* `part as f64 / total as f64 * 100.0`
Pct(part, total) == Ratio(part * 100, total)

\* Mutant: the distance between the two counters instead of a floor at zero.
abs_diff(a, b) == IF a >= b THEN a - b ELSE b - a

\* u64::saturating_sub
saturating_sub(a, b) == IF a >= b THEN a - b ELSE 0

\* i32::clamp
clamp(x, lo, hi) == IF x < lo THEN lo ELSE IF x > hi THEN hi ELSE x

----------------------------------------------------------------------------
(* Bounded time series *)

\* Mutant: evicts only once the buffer is already over its capacity.
push_bounded_late(buf, value, max) ==
    LET kept == IF Len(buf) > max THEN Tail(buf) ELSE buf
    IN  Append(kept, value)

push_bounded(buf, value, max) ==
    LET kept == IF Len(buf) >= max THEN Tail(buf) ELSE buf
    IN  Append(kept, value)

----------------------------------------------------------------------------
(* Counter delta engine *)

\* The four saturating per-field deltas and their total.
Deltas(t, prev) ==
    LET d_user == saturating_sub(t[1], prev[1])
        d_system == saturating_sub(t[2], prev[2])
        d_idle == saturating_sub(t[3], prev[3])
        d_nice == saturating_sub(t[4], prev[4])
    IN  [d_user |-> d_user, d_system |-> d_system, d_idle |-> d_idle,
         d_nice |-> d_nice,
         total |-> d_user + d_system + d_idle + d_nice]

\* Mutant: nice ticks counted as system time.
Percentages_nice_in_system(d) ==
    [user |-> Pct(d.d_user, d.total),
     system |-> Pct(d.d_system + d.d_nice, d.total),
     idle |-> Pct(d.d_idle, d.total)]

\* Mutant: nice ticks left out of every numerator.
Percentages_nice_dropped(d) ==
    [user |-> Pct(d.d_user, d.total),
     system |-> Pct(d.d_system, d.total),
     idle |-> Pct(d.d_idle, d.total)]

\* The percentages computed from deltas d (d.total > 0).
Percentages(d) ==
    [user |-> Pct(d.d_user + d.d_nice, d.total),
     system |-> Pct(d.d_system, d.total),
     idle |-> Pct(d.d_idle, d.total)]

\* Mutant: a failed read zeroes the split.
Split_zeroed_on_failure(t, prev, old) ==
    IF t = None THEN [user |-> ZeroPct, system |-> ZeroPct, idle |-> ZeroPct]
    ELSE IF prev = None THEN old
    ELSE LET d == Deltas(t[1], prev[1])
         IN  IF d.total > 0 THEN Percentages(d) ELSE old

\* Mutant: with no stored snapshot the deltas are taken against zero counters.
Split_against_zero_when_unset(t, prev, old) ==
    IF t = None THEN old
    ELSE LET d == Deltas(t[1], IF prev = None THEN <<0, 0, 0, 0>> ELSE prev[1])
         IN  IF d.total > 0 THEN Percentages(d) ELSE old

\* The split the cycle leaves: t is the snapshot read (an Option), prev the
\* stored one (an Option), old the split of the prior cycle.
Split(t, prev, old) ==
    IF t = None THEN old
    ELSE IF prev = None THEN old
    ELSE LET d == Deltas(t[1], prev[1])
         IN  IF d.total > 0 THEN Percentages(d) ELSE old

\* Mutant: the snapshot is stored only inside the `total > 0` branch.
StoredTicks_only_on_movement(t, prev) ==
    IF t = None THEN prev
    ELSE IF prev # None /\ Deltas(t[1], prev[1]).total = 0 THEN prev
    ELSE t

\* Mutant: the result of the read is stored as it is, a failed read included.
StoredTicks_overwritten_on_failure(t, prev) == t

\* What the cycle stores as the previous snapshot.
StoredTicks(t, prev) == IF t = None THEN prev ELSE t

\* Mutant: the points carry the cycle counter as it is after the cycle.
update_cpu_split_counts_first(t) ==
    LET old == [user |-> user_pct, system |-> system_pct, idle |-> idle_pct]
        new == Split(t, prev_ticks, old)
    IN  /\ now' = t
        /\ user_pct' = new.user
        /\ system_pct' = new.system
        /\ idle_pct' = new.idle
        /\ prev_ticks' = StoredTicks(t, prev_ticks)
        /\ system_history' =
               push_bounded(system_history, <<tick_count + 1, new.system>>, HISTORY_LEN)
        /\ user_history' =
               push_bounded(user_history, <<tick_count + 1, new.user>>, HISTORY_LEN)
        /\ system_log' = Append(system_log, <<tick_count + 1, new.system>>)
        /\ user_log' = Append(user_log, <<tick_count + 1, new.user>>)

update_cpu_split(t) ==
    LET old == [user |-> user_pct, system |-> system_pct, idle |-> idle_pct]
        new == Split(t, prev_ticks, old)
    IN  /\ now' = t
        /\ user_pct' = new.user
        /\ system_pct' = new.system
        /\ idle_pct' = new.idle
        /\ prev_ticks' = StoredTicks(t, prev_ticks)
        /\ system_history' =
               push_bounded(system_history, <<tick_count, new.system>>, HISTORY_LEN)
        /\ user_history' =
               push_bounded(user_history, <<tick_count, new.user>>, HISTORY_LEN)
        /\ system_log' = Append(system_log, <<tick_count, new.system>>)
        /\ user_log' = Append(user_log, <<tick_count, new.user>>)

----------------------------------------------------------------------------
(* Process snapshot ranker *)

\* f32::partial_cmp: None when either side is NaN.
partial_cmp(x, y) ==
    IF x = NaN \/ y = NaN THEN None
    ELSE IF x[1] < y[1] THEN Some("Less")
    ELSE IF x[1] > y[1] THEN Some("Greater")
    ELSE Some("Equal")

unwrap_or(o, default) == IF o = None THEN default ELSE o[1]

\* The comparator closure handed to sort_by.
compare(a, b) == unwrap_or(partial_cmp(b.cpu_usage, a.cpu_usage), "Equal")

\* slice::sort_by is the standard library's stable sort, which for slices of
\* at most 20 elements is an insertion sort: each element in turn is moved
\* left past the elements it compares Less than.
\* Mutant: an element also moves left past the elements it compares Equal to.
RECURSIVE insert_tail_past_equals(_, _)
insert_tail_past_equals(v, x) ==
    IF v = <<>> THEN <<x>>
    ELSE IF compare(x, v[Len(v)]) # "Greater"
         THEN Append(insert_tail_past_equals(SubSeq(v, 1, Len(v) - 1), x),
                     v[Len(v)])
         ELSE Append(v, x)

RECURSIVE insert_tail(_, _)
insert_tail(v, x) ==
    IF v = <<>> THEN <<x>>
    ELSE IF compare(x, v[Len(v)]) = "Less"
         THEN Append(insert_tail(SubSeq(v, 1, Len(v) - 1), x), v[Len(v)])
         ELSE Append(v, x)

RECURSIVE sort_by(_)
sort_by(v) ==
    IF v = <<>> THEN <<>>
    ELSE insert_tail(sort_by(SubSeq(v, 1, Len(v) - 1)), v[Len(v)])

----------------------------------------------------------------------------
(* Selection continuity *)

\* Iterator::position: the 0-based index of the first entry with this pid.
position(ps, pid) ==
    IF \E i \in 1..Len(ps) : ps[i].pid = pid
    THEN Some((CHOOSE i \in 1..Len(ps) :
                  /\ ps[i].pid = pid
                  /\ \A j \in 1..(i - 1) : ps[j].pid # pid) - 1)
    ELSE None

\* Mutant: the row index is never recomputed.
restore_selection_keeps_row(ps, sel_pid, selected) == selected

\* Mutant: a pid that is not in the list clears the row index.
restore_selection_unsets(ps, sel_pid, selected) ==
    IF sel_pid = None THEN selected
    ELSE position(ps, sel_pid[1])

\* The table selection restore_selection leaves for list ps.
restore_selection(ps, sel_pid, selected) ==
    IF sel_pid = None THEN selected
    ELSE IF position(ps, sel_pid[1]) # None
         THEN position(ps, sel_pid[1])
         ELSE selected

\* Mutant: the row wraps around the ends of the list instead of stopping.
NextRow_wraps(selected, offset, len) ==
    (unwrap_or(selected, 0) + offset) % len

\* The row select_process moves to (the list is not empty).
NextRow(selected, offset, len) ==
    clamp(unwrap_or(selected, 0) + offset, 0, len - 1)

\* Mutant: a selected pid that is no longer in the list is cleared.
update_processes_clears_vanished(inv, mem) ==
    /\ total_memory' = mem[1]
    /\ used_memory' = mem[2]
    /\ procs' = inv
    /\ processes' = sort_by(inv)
    /\ table_state' = restore_selection(sort_by(inv), selected_pid, table_state)
    /\ selected_pid' =
           IF selected_pid # None /\ position(sort_by(inv), selected_pid[1]) = None
           THEN None
           ELSE selected_pid

update_processes(inv, mem) ==
    /\ total_memory' = mem[1]
    /\ used_memory' = mem[2]
    /\ procs' = inv
    /\ processes' = sort_by(inv)
    /\ table_state' = restore_selection(sort_by(inv), selected_pid, table_state)
    /\ UNCHANGED selected_pid

----------------------------------------------------------------------------
(* Chart bounds *)

\* Mutant: the window ends at the cycle counter even before it reaches WINDOW.
history_bounds_unanchored ==
    LET end == tick_count
        start == end - WINDOW
    IN  <<start, end>>

\* Mutant: the window is one cycle narrower at its start.
history_bounds_narrow ==
    LET end == Max(tick_count, WINDOW)
        start == end - WINDOW + 1
    IN  <<start, end>>

\* App::history_bounds: [start, end] of the chart's x axis.
history_bounds ==
    LET end == Max(tick_count, WINDOW)
        start == end - WINDOW
    IN  <<start, end>>

----------------------------------------------------------------------------
(* Operations *)

\* The record of a call of `op`, taken from the state it starts in.
Called(op, offset) ==
    [op |-> op, offset |-> offset, selected |-> table_state,
     prev |-> prev_ticks,
     absent |-> selected_pid # None /\ position(processes, selected_pid[1]) = None,
     failed |-> now = None]

tick(t, inv, mem, threads) ==
    /\ running
    /\ update_cpu_split(t)
    /\ update_processes(inv, mem)
    /\ thread_count' = threads
    /\ tick_count' = tick_count + 1
    /\ call' = Called("tick", 0)
    /\ UNCHANGED running

\* Mutant: on an empty list the selection is reset instead of left alone.
select_process_resets_on_empty(offset) ==
    /\ running
    /\ call' = Called("select_process", offset)
    /\ IF Len(processes) = 0
       THEN table_state' = Some(0) /\ selected_pid' = None
       ELSE LET next == NextRow(table_state, offset, Len(processes))
            IN  /\ table_state' = Some(next)
                /\ selected_pid' = Some(processes[next + 1].pid)
    /\ UNCHANGED <<prev_ticks, tick_count, system_pct, user_pct, idle_pct,
                   system_history, user_history, thread_count, total_memory,
                   used_memory, processes, running, now, procs, system_log,
                   user_log>>

select_process(offset) ==
    /\ running
    /\ call' = Called("select_process", offset)
    /\ IF Len(processes) = 0
       THEN UNCHANGED <<table_state, selected_pid>>
       ELSE LET next == NextRow(table_state, offset, Len(processes))
            IN  /\ table_state' = Some(next)
                /\ selected_pid' = Some(processes[next + 1].pid)
    /\ UNCHANGED <<prev_ticks, tick_count, system_pct, user_pct, idle_pct,
                   system_history, user_history, thread_count, total_memory,
                   used_memory, processes, running, now, procs, system_log,
                   user_log>>

KeyCodes == {"q", "Esc", "Down", "j", "Up", "k", "x"}

handle_key(code) ==
    IF code \in {"q", "Esc"}
    THEN /\ running
         /\ running' = FALSE
         /\ call' = Called("quit", 0)
         /\ UNCHANGED <<prev_ticks, tick_count, system_pct, user_pct, idle_pct,
                        system_history, user_history, thread_count,
                        total_memory, used_memory, processes, table_state,
                        selected_pid, now, procs, system_log, user_log>>
    ELSE IF code \in {"Down", "j"} THEN select_process(1)
    ELSE IF code \in {"Up", "k"} THEN select_process(-1)
    ELSE running /\ UNCHANGED vars

----------------------------------------------------------------------------
(* The external provider: what the host can return *)

\* get_cpu_ticks(): counters read as u32 and widened to u64, so the sums of
\* four deltas never overflow u64.  A later sample may be lower (wraparound).
UserTicks == {100, 110}
SystemTicks == {50, 55}
IdleTicks == {800, 850}
NiceTicks == {0, 3}

CpuSamples ==
    {None} \cup {Some(<<u, s, i, n>>) :
                    u \in UserTicks, s \in SystemTicks,
                    i \in IdleTicks, n \in NiceTicks}

\* A host whose counters stand still, or whose read fails.
StalledSamples == {None, Some(<<100, 50, 800, 0>>)}

\* A host whose counters stand still.
SteadySamples == {Some(<<100, 50, 800, 0>>)}

\* A long run of one host.  Sample c is what the host returns at its c-th read
\* (App::new() makes read 0, the cycle that starts with tick_count = c makes
\* read c + 1).  The counters advance at different rates, stand still on
\* every fifth read and wrap around a small modulus; the reads listed in
\* FailedReads may fail.
HostTicksAt(c) ==
    LET k == c - (c \div 5)
    IN  <<(3 * k + (k % 2)) % 97, k % 61, (5 * k + (k % 3)) % 211,
          (k \div 4) % 7>>

FailedReads == {2, 181}

HostSamples(c) ==
    {Some(HostTicksAt(c))} \cup (IF c \in FailedReads THEN {None} ELSE {})

\* total_memory / used_memory and the thread count of one refresh.
MemorySamples == {<<8, 5>>}
ThreadSamples == {7}

Pids == 1..MaxPid

\* Inventories: a sequence of entries with distinct pids (the provider's map
\* is keyed by pid), in any order.
RECURSIVE Inventories(_, _)
Inventories(pids, usages) ==
    {<<>>} \cup
    UNION {{<<[pid |-> p, cpu_usage |-> c]>> \o rest :
               rest \in Inventories(pids \ {p}, usages), c \in usages} :
           p \in pids}

\* Inventories in ascending pid order.
RECURSIVE OrderedInventories(_, _)
OrderedInventories(pids, usages) ==
    IF pids = {} THEN {<<>>}
    ELSE LET p == CHOOSE q \in pids : \A r \in pids : q <= r
             rests == OrderedInventories(pids \ {p}, usages)
         IN  rests \cup
             {<<[pid |-> p, cpu_usage |-> c]>> \o rest :
                 rest \in rests, c \in usages}

Usages == {Num(1), Num(2)}
UsagesWithNaN == {Num(1), Num(2), NaN}

SpecInventories == OrderedInventories(Pids, Usages)
RankInventories == Inventories(Pids, UsagesWithNaN)

Offsets == (-MaxOffset)..MaxOffset

----------------------------------------------------------------------------
(* Specifications *)

\* App::new(): every field at its initial value, prev_ticks the first read.
New(samples) ==
    /\ prev_ticks \in samples
    /\ now = prev_ticks
    /\ tick_count = 0
    /\ system_pct = ZeroPct
    /\ user_pct = ZeroPct
    /\ idle_pct = ZeroPct
    /\ system_history = <<>>
    /\ user_history = <<>>
    /\ thread_count = 0
    /\ total_memory = 0
    /\ used_memory = 0
    /\ processes = <<>>
    /\ procs = <<>>
    /\ table_state = Some(0)
    /\ selected_pid = None
    /\ running = TRUE
    /\ system_log = <<>>
    /\ user_log = <<>>
    /\ call = [op |-> "new", offset |-> 0, selected |-> Some(0),
               prev |-> prev_ticks, absent |-> FALSE, failed |-> FALSE]

\* Spec: cycles and navigation over changing inventories.
Init == New(SteadySamples)

Tick ==
    /\ tick_count < MaxTicks
    /\ \E t \in SteadySamples, inv \in SpecInventories,
          mem \in MemorySamples, threads \in ThreadSamples :
          tick(t, inv, mem, threads)

SelectProcess == \E offset \in Offsets : select_process(offset)

HandleKey == \E code \in KeyCodes : handle_key(code)

Next == Tick \/ SelectProcess \/ HandleKey

Spec == Init /\ [][Next]_vars

\* SpecCpu: cycles over every pair of counter snapshots.
InitCpu == New(CpuSamples)

TickCpu ==
    /\ tick_count < MaxCpuCycles
    /\ \E t \in CpuSamples, mem \in MemorySamples, threads \in ThreadSamples :
          tick(t, <<>>, mem, threads)

NextCpu == TickCpu

SpecCpu == InitCpu /\ [][NextCpu]_vars

\* SpecRank: one cycle of a fresh App over every raw inventory.
InitRank == New(StalledSamples)

TickRank ==
    /\ tick_count = 0
    /\ \E t \in StalledSamples, inv \in RankInventories,
          mem \in MemorySamples, threads \in ThreadSamples :
          tick(t, inv, mem, threads)

NextRank == TickRank

SpecRank == InitRank /\ [][NextRank]_vars

\* SpecHistory: a long run of cycles, past the capacity of the histories.
InitHistory == New(HostSamples(0))

TickHistory ==
    /\ tick_count < MaxSamples
    /\ \E t \in HostSamples(tick_count + 1), mem \in MemorySamples,
          threads \in ThreadSamples :
          tick(t, <<>>, mem, threads)

NextHistory == TickHistory

SpecHistory == InitHistory /\ [][NextHistory]_vars

----------------------------------------------------------------------------
(* Properties *)

IsTick == call.op = "tick"

\* The last min(Len(log), HISTORY_LEN) points of log.
MostRecent(log) ==
    SubSeq(log, Len(log) - Min(Len(log), HISTORY_LEN) + 1, Len(log))

\* The rational sum of three percentages, as numerator and denominator.
SumNum(u, s, i) == u[1] * s[2] * i[2] + s[1] * u[2] * i[2] + i[1] * u[2] * s[2]
SumDen(u, s, i) == u[2] * s[2] * i[2]

\* pct is the value part / total * 100.
IsPctOf(pct, part, total) == pct[1] * total = part * 100 * pct[2]

AbsentFrom(ps, pid) == \A i \in 1..Len(ps) : ps[i].pid # pid

\* Rank order of two usages in which NaN is the lowest rank.
RanksAtLeast(x, y) == y = NaN \/ (x # NaN /\ x[1] >= y[1])

\* C1: after n cycles each history holds exactly the most recent
\* min(n, 180) points pushed to it, in insertion order, so its length never
\* exceeds 180 and a push to a full history evicts the single oldest point.
C1_HistoryHoldsMostRecent ==
    /\ Len(system_log) = tick_count
    /\ Len(user_log) = tick_count
    /\ system_history = MostRecent(system_log)
    /\ user_history = MostRecent(user_log)
    /\ Len(system_history) = Min(tick_count, HISTORY_LEN)
    /\ Len(user_history) = Min(tick_count, HISTORY_LEN)

C1_Witness ==
    /\ tick_count > HISTORY_LEN + 1
    /\ Len(system_history) = HISTORY_LEN
    /\ Len(user_history) = HISTORY_LEN
    /\ system_history[1][1] = tick_count - HISTORY_LEN
    /\ system_history[HISTORY_LEN][1] = tick_count - 1

\* C2: whenever a pid is selected and the ranked list holds an entry with
\* that pid, the selected row is the position of that entry.
C2_SelectionFollowsEntity ==
    \A i \in 1..Len(processes) :
        (selected_pid # None /\ processes[i].pid = selected_pid[1])
            => table_state = Some(i - 1)

\* A cycle moved the selected entity from the last of three rows to the first.
C2_Witness ==
    /\ IsTick
    /\ selected_pid # None
    /\ Len(processes) = 3
    /\ processes[1].pid = selected_pid[1]
    /\ call.selected = Some(2)
    /\ table_state = Some(0)

C4_FailedReadHoldsSplit ==
    [][(call'.op = "tick" /\ now' = None)
          => /\ system_pct' = system_pct
             /\ user_pct' = user_pct
             /\ idle_pct' = idle_pct
             /\ system_log' = Append(system_log, <<tick_count, system_pct>>)
             /\ user_log' = Append(user_log, <<tick_count, user_pct>>)
             /\ Len(system_history') = Min(Len(system_history) + 1, HISTORY_LEN)
             /\ Len(user_history') = Min(Len(user_history) + 1, HISTORY_LEN)
             /\ system_history'[Len(system_history')] = <<tick_count, system_pct>>
             /\ user_history'[Len(user_history')] = <<tick_count, user_pct>>]_vars

C4_Witness ==
    /\ IsTick
    /\ now = None
    /\ system_pct # ZeroPct
    /\ user_pct # ZeroPct
    /\ idle_pct # ZeroPct
    /\ system_history[Len(system_history)] = <<tick_count - 1, system_pct>>
    /\ user_history[Len(user_history)] = <<tick_count - 1, user_pct>>

\* C5: with both snapshots present and a positive total, user_pct is
\* (d_user + d_nice) / total * 100, system_pct is d_system / total * 100 and
\* idle_pct is d_idle / total * 100.
C5_NiceFoldedIntoUser ==
    (IsTick /\ call.prev # None /\ now # None) =>
        LET p == call.prev[1]
            c == now[1]
            d_user == Max(c[1] - p[1], 0)
            d_system == Max(c[2] - p[2], 0)
            d_idle == Max(c[3] - p[3], 0)
            d_nice == Max(c[4] - p[4], 0)
            total == d_user + d_system + d_idle + d_nice
        IN  total > 0 =>
                /\ IsPctOf(user_pct, d_user + d_nice, total)
                /\ IsPctOf(system_pct, d_system, total)
                /\ IsPctOf(idle_pct, d_idle, total)

\* [100,50,800,0] then [110,55,850,0]: 10/65, 5/65 and 50/65 of 100.
C5_Witness ==
    /\ IsTick
    /\ call.prev = Some(<<100, 50, 800, 0>>)
    /\ now = Some(<<110, 55, 850, 0>>)
    /\ user_pct = <<200, 13>>
    /\ system_pct = <<100, 13>>
    /\ idle_pct = <<1000, 13>>

\* C6: in every reachable state the three percentages add up to 0 (all three
\* still at their initial zero) or to exactly 100.
C6_SplitSumsToZeroOrHundred ==
    \/ /\ user_pct = ZeroPct
       /\ system_pct = ZeroPct
       /\ idle_pct = ZeroPct
    \/ SumNum(user_pct, system_pct, idle_pct)
           = 100 * SumDen(user_pct, system_pct, idle_pct)

\* A split computed in a cycle in which the nice counter moved.
C6_Witness ==
    /\ IsTick
    /\ call.prev # None
    /\ now # None
    /\ now[1][4] > call.prev[1][4]
    /\ now[1][2] > call.prev[1][2]
    /\ now[1][3] > call.prev[1][3]
    /\ SumNum(user_pct, system_pct, idle_pct)
           = 100 * SumDen(user_pct, system_pct, idle_pct)

\* C7: a cycle that reads a snapshot none of whose counters moved past the
\* stored one (total = 0) leaves the three percentages as they were and
\* stores the snapshot read as the previous one.
C7_StalledCycleHoldsSplitAndStores ==
    [][(/\ call'.op = "tick"
        /\ prev_ticks # None
        /\ now' # None
        /\ \A k \in 1..4 : now'[1][k] <= prev_ticks[1][k])
          => /\ system_pct' = system_pct
             /\ user_pct' = user_pct
             /\ idle_pct' = idle_pct
             /\ prev_ticks' = now']_vars

C7_Witness ==
    /\ IsTick
    /\ call.prev # None
    /\ now # None
    /\ \A k \in 1..4 : now[1][k] <= call.prev[1][k]
    /\ now # call.prev
    /\ prev_ticks = now
    /\ system_pct # ZeroPct

\* C8: a counter that regressed counts as zero movement: the split of the
\* cycle is the one computed with every regressed counter held at its stored
\* value, every delta is >= 0 and every percentage lies between 0 and 100.
C8_RegressionIsZeroMovement ==
    (IsTick /\ call.prev # None /\ now # None) =>
        LET p == call.prev[1]
            c == now[1]
            held == [k \in 1..4 |-> IF c[k] < p[k] THEN p[k] ELSE c[k]]
            d == [k \in 1..4 |-> held[k] - p[k]]
            total == d[1] + d[2] + d[3] + d[4]
        IN  /\ \A k \in 1..4 : d[k] >= 0
            /\ \A pct \in {user_pct, system_pct, idle_pct} :
                   pct[1] >= 0 /\ pct[1] <= 100 * pct[2]
            /\ total > 0 =>
                   /\ IsPctOf(user_pct, d[1] + d[4], total)
                   /\ IsPctOf(system_pct, d[2], total)
                   /\ IsPctOf(idle_pct, d[3], total)

\* The user counter regressed while system and idle advanced.
C8_Witness ==
    /\ IsTick
    /\ call.prev = Some(<<110, 50, 800, 0>>)
    /\ now = Some(<<100, 55, 850, 0>>)
    /\ user_pct = ZeroPct
    /\ system_pct = <<100, 11>>
    /\ idle_pct = <<1000, 11>>

\* C9: after every cycle the process list is a permutation of the raw
\* inventory in which each entry's usage is at least the next entry's.
C9_ListIsRankedPermutation ==
    IsTick =>
        /\ Len(processes) = Len(procs)
        /\ \A i \in 1..Len(procs) :
               \E j \in 1..Len(processes) : processes[j] = procs[i]
        /\ \A i \in 1..(Len(processes) - 1) :
               RanksAtLeast(processes[i].cpu_usage, processes[i + 1].cpu_usage)

\* C10: after every cycle every entry with a comparable usage precedes
\* every NaN entry and the comparable entries are in non-increasing order.
C10_NaNRanksLowest ==
    IsTick =>
        \A i, j \in 1..Len(processes) :
            i < j =>
                /\ processes[i].cpu_usage = NaN => processes[j].cpu_usage = NaN
                /\ (processes[i].cpu_usage # NaN /\ processes[j].cpu_usage # NaN)
                       => processes[i].cpu_usage[1] >= processes[j].cpu_usage[1]

\* C11: select_process(offset) on a list of n > 0 entries sets the selected
\* row to clamp(current + offset, 0, n - 1), current being the row selected
\* before the call (0 if none), and the selected pid to the pid at that row.
C11_NavigateClamps ==
    (call.op = "select_process" /\ Len(processes) > 0) =>
        LET current == IF call.selected = None THEN 0 ELSE call.selected[1]
            next == Max(0, Min(current + call.offset, Len(processes) - 1))
        IN  /\ table_state = Some(next)
            /\ selected_pid = Some(processes[next + 1].pid)

\* A step of +1 from the last of three rows stays on the last row.
C11_Witness ==
    /\ call.op = "select_process"
    /\ call.offset = 1
    /\ Len(processes) = 3
    /\ call.selected = Some(2)
    /\ table_state = Some(2)
    /\ selected_pid = Some(processes[3].pid)

\* C12: a cycle never changes the selected pid, whether the selected entity
\* moved, vanished or was never set; only select_process changes it.
C12_OnlyNavigateChangesSelectedPid ==
    [][/\ call'.op = "tick" => selected_pid' = selected_pid
       /\ selected_pid' # selected_pid => call'.op = "select_process"]_vars

\* A second or later cycle has dropped the selected entity from the list.
C12_Witness ==
    /\ IsTick
    /\ tick_count >= 2
    /\ call.absent = FALSE
    /\ selected_pid # None
    /\ AbsentFrom(processes, selected_pid[1])

\* C13: the chart bounds are [0, 180] until the cycle counter exceeds 180 and
\* [cycle counter - 180, cycle counter] from then on: the width is always
\* 180 and the start is never negative.
C13_ChartWindow ==
    /\ history_bounds =
           IF tick_count <= 180 THEN <<0, 180>>
           ELSE <<tick_count - 180, tick_count>>
    /\ history_bounds[2] - history_bounds[1] = 180
    /\ history_bounds[1] >= 0

\* The window has started to slide.
C13_Witness ==
    /\ tick_count = 182
    /\ history_bounds = <<2, 182>>

\* C14: every cycle appends one point to each history, both with the cycle
\* counter of that cycle as sequence index and with system_pct / user_pct as
\* they stand after the cycle's delta step; so both histories have length
\* min(cycle counter, 180) and their sequence indexes rise by exactly 1.
C14_OnePointPerCycle ==
    /\ Len(system_history) = Min(tick_count, HISTORY_LEN)
    /\ Len(user_history) = Len(system_history)
    /\ \A i \in 1..Len(system_history) :
           /\ system_history[i][1] = tick_count - Len(system_history) + i - 1
           /\ user_history[i][1] = system_history[i][1]
    /\ \A i \in 1..(Len(system_history) - 1) :
           system_history[i + 1][1] = system_history[i][1] + 1
    /\ tick_count > 0 =>
           /\ system_history[Len(system_history)] = <<tick_count - 1, system_pct>>
           /\ user_history[Len(user_history)] = <<tick_count - 1, user_pct>>

\* A full history whose newest point carries a freshly computed split.
C14_Witness ==
    /\ tick_count > HISTORY_LEN
    /\ Len(user_history) = HISTORY_LEN
    /\ user_history[HISTORY_LEN] = <<tick_count - 1, user_pct>>
    /\ user_history[HISTORY_LEN - 1][2] # user_pct
    /\ system_history[HISTORY_LEN][2] # system_history[HISTORY_LEN - 1][2]

\* C15: select_process on an empty process list changes neither the selected
\* row nor the selected pid, whatever the offset.
C15_NavigateOnEmptyListIsNoOp ==
    [][(call'.op = "select_process" /\ Len(processes) = 0)
          => (table_state' = table_state /\ selected_pid' = selected_pid)]_vars

\* A call on a list that a cycle emptied after an entity had been selected.
C15_Witness ==
    /\ call.op = "select_process"
    /\ call.offset # 0
    /\ Len(processes) = 0
    /\ tick_count >= 2
    /\ selected_pid # None
    /\ table_state = call.selected
    /\ table_state # Some(0)

\* C16: when the selected pid is missing from the list and a later cycle's
\* list holds it again, with no navigation in between, that cycle sets the
\* selected row to the position of the entity and keeps the selected pid.
C16_SelectionResumes ==
    [][(/\ call'.op = "tick"
        /\ selected_pid # None
        /\ AbsentFrom(processes, selected_pid[1])
        /\ ~AbsentFrom(processes', selected_pid[1]))
          => /\ selected_pid' = selected_pid
             /\ \A i \in 1..Len(processes') :
                    processes'[i].pid = selected_pid[1]
                        => table_state' = Some(i - 1)]_vars

\* The third cycle brings the selected entity back, at another row than the
\* one the selection had been left on.
C16_Witness ==
    /\ IsTick
    /\ tick_count = 3
    /\ call.absent
    /\ selected_pid # None
    /\ ~AbsentFrom(processes, selected_pid[1])
    /\ call.selected # table_state
    /\ processes[table_state[1] + 1].pid = selected_pid[1]

\* C17: a cycle that finds no stored snapshot and reads one stores it as the
\* previous snapshot and leaves the three percentages at their initial 0.
C17_FirstSnapshotOnlyStored ==
    [][(call'.op = "tick" /\ prev_ticks = None /\ now' # None)
          => /\ prev_ticks' = now'
             /\ user_pct = ZeroPct /\ user_pct' = ZeroPct
             /\ system_pct = ZeroPct /\ system_pct' = ZeroPct
             /\ idle_pct = ZeroPct /\ idle_pct' = ZeroPct]_vars

\* The read of App::new and of the first cycle failed; the second cycle reads.
C17_Witness ==
    /\ IsTick
    /\ tick_count = 2
    /\ call.prev = None
    /\ call.failed
    /\ now # None
    /\ prev_ticks = now
    /\ user_pct = ZeroPct
    /\ system_pct = ZeroPct
    /\ idle_pct = ZeroPct

\* C18: ranking is stable: two entries of the raw inventory with equal cpu
\* usage appear in the ranked list in the order they had in the inventory.
C18_RankingIsStable ==
    IsTick =>
        \A i, j \in 1..Len(procs) :
            (/\ i < j
             /\ procs[i].cpu_usage # NaN
             /\ procs[i].cpu_usage = procs[j].cpu_usage)
                => \E a, b \in 1..Len(processes) :
                       /\ a < b
                       /\ processes[a] = procs[i]
                       /\ processes[b] = procs[j]

\* Two entries tied at 1.0 are overtaken by a later entry at 2.0 and keep
\* their order.
C18_Witness ==
    /\ IsTick
    /\ Len(procs) = 3
    /\ procs[1].cpu_usage = Num(1)
    /\ procs[2].cpu_usage = Num(1)
    /\ procs[3].cpu_usage = Num(2)
    /\ procs[1].pid > procs[2].pid
    /\ processes = <<procs[3], procs[1], procs[2]>>

\* C19: whenever the process list is not empty, the selected row, when set,
\* is a valid index into the list.
C19_SelectedRowIsValid ==
    (Len(processes) > 0 /\ table_state # None)
        => table_state[1] < Len(processes)

\* C20: a cycle whose read fails leaves the stored snapshot unchanged, and a
\* cycle that reads a snapshot after a failed read computes its split from
\* the deltas against that stored snapshot, the last one read successfully.
C20_FailedReadKeepsStoredSnapshot ==
    /\ (IsTick /\ now = None) => prev_ticks = call.prev
    /\ (IsTick /\ call.failed /\ now # None /\ call.prev # None) =>
           LET p == call.prev[1]
               c == now[1]
               moved == [k \in 1..4 |-> IF c[k] > p[k] THEN c[k] - p[k] ELSE 0]
               total == moved[1] + moved[2] + moved[3] + moved[4]
           IN  /\ prev_ticks = now
               /\ total > 0 =>
                      /\ IsPctOf(user_pct, moved[1] + moved[4], total)
                      /\ IsPctOf(system_pct, moved[2], total)
                      /\ IsPctOf(idle_pct, moved[3], total)

\* The second cycle reads again after the first one failed, and computes a
\* split against the snapshot App::new had stored.
C20_Witness ==
    /\ IsTick
    /\ tick_count = 2
    /\ call.failed
    /\ call.prev = Some(<<100, 50, 800, 0>>)
    /\ now = Some(<<110, 55, 850, 3>>)
    /\ prev_ticks = now
    /\ user_pct = <<325, 17>>
    /\ system_pct = <<125, 17>>
    /\ idle_pct = <<1250, 17>>

\* C21: after any number of cycles, the sequence index of every point stored
\* in the system history and in the user history lies within the chart
\* bounds derived at that moment, start <= index <= end; in particular the
\* oldest stored point is not before start.
C21_StoredPointsWithinBounds ==
    LET start == history_bounds[1]
        end == history_bounds[2]
    IN  /\ \A i \in 1..Len(system_history) :
               start <= system_history[i][1] /\ system_history[i][1] <= end
        /\ \A i \in 1..Len(user_history) :
               start <= user_history[i][1] /\ user_history[i][1] <= end
        /\ Len(system_history) > 0 => system_history[1][1] >= start
        /\ Len(user_history) > 0 => user_history[1][1] >= start

\* The window slides over full histories: the oldest stored point sits
\* exactly on the start of the bounds, the newest one cycle before the end.
C21_Witness ==
    /\ tick_count > HISTORY_LEN + 1
    /\ Len(system_history) = HISTORY_LEN
    /\ Len(user_history) = HISTORY_LEN
    /\ history_bounds[1] > 0
    /\ system_history[1][1] = history_bounds[1]
    /\ user_history[1][1] = history_bounds[1]
    /\ user_history[HISTORY_LEN][1] = history_bounds[2] - 1

====
